---- MODULE Spec2Model ----
(***************************************************************************)
(* Model of the bounded lock-free ring-buffer queue of src/quequ.go        *)
(* (type DefaultQueue): NewQueue, Put, Get, posCount, minRoundNumBy2.      *)
(*                                                                         *)
(* uint32 values are pairs <<hi, lo>> of 16-bit halves, so that the        *)
(* arithmetic keeps its 32-bit width (wrap-around included).               *)
(***************************************************************************)
EXTENDS Integers, Sequences, FiniteSets, Bags, TLC

\* ------------------------------------------------------------ bounds
MaxProducers == 2       \* producer threads
MaxConsumers == 3       \* consumer threads
MaxPuts == 2            \* values each producer offers when all producers run
LapPuts == 17           \* values one producer offers alone (more than one lap)
LivePuts == 2           \* values the producer offers in the liveness runs
ReqCap == 8             \* the capacity asked of NewQueue
MaxReq == 63            \* NewQueue is called with the requests 0..MaxReq
MaxLog == 3             \* calls recorded of a run without concurrency
CrowdSize == 19         \* consumer threads of the crowded runs
CrowdPuts == 17         \* values the producer offers in the crowded runs
StaleProducers == 4     \* producer threads of the stale-snapshot runs
StaleGets == 3          \* consumer threads of the stale-snapshot runs, one Get each
StalePuts == 15         \* values the last producer offers in the stale-snapshot runs
MaxBack == 3            \* how far from the wrap point the cursors of the estimator runs start
LFReq == 1              \* capacity requested for the LFQueue runs
LFCallers == 2          \* threads calling LFQueue.Put
LFPuts == 2             \* values each of them offers
MaxDepth == 3           \* nested calls (Put -> Get -> Put(nil)) a thread may have in progress

\* ------------------------------------------------- program constants
MinCap == 8

\* the constants of the LFQueue variant
LFMinCap == 8

MaxWait == 100

\* ------------------------------------------------------------ uint32
Half == 2^16

U32(n) == <<n \div Half, n % Half>>

ToNat(u) == u[1] * Half + u[2]

Zero32 == <<0, 0>>

One32 == <<0, 1>>

Max32 == <<Half - 1, Half - 1>>

Add32(a, b) ==
    LET lo == a[2] + b[2]
        hi == a[1] + b[1] + (lo \div Half)
    IN  <<hi % Half, lo % Half>>

Sub32(a, b) ==
    LET lo == a[2] - b[2]
        borrow == IF lo < 0 THEN 1 ELSE 0
        hi == a[1] - b[1] - borrow
    IN  <<(hi + Half) % Half, (lo + Half) % Half>>

Lt32(a, b) == a[1] < b[1] \/ (a[1] = b[1] /\ a[2] < b[2])

Gt32(a, b) == Lt32(b, a)

Ge32(a, b) == ~Lt32(a, b)

RECURSIVE OrBits(_, _)
OrBits(a, b) ==
    IF a = 0 THEN b
    ELSE IF b = 0 THEN a
    ELSE (IF a % 2 = 1 \/ b % 2 = 1 THEN 1 ELSE 0) + 2 * OrBits(a \div 2, b \div 2)

RECURSIVE AndBits(_, _)
AndBits(a, b) ==
    IF a = 0 \/ b = 0 THEN 0
    ELSE (IF a % 2 = 1 /\ b % 2 = 1 THEN 1 ELSE 0) + 2 * AndBits(a \div 2, b \div 2)

Or32(a, b) == <<OrBits(a[1], b[1]), OrBits(a[2], b[2])>>

And32(a, b) == <<AndBits(a[1], b[1]), AndBits(a[2], b[2])>>

Not32(a) == <<Half - 1 - a[1], Half - 1 - a[2]>>

\* v >> k for 1 <= k <= 16
Shr32(v, k) ==
    IF k = 16 THEN <<0, v[1]>>
    ELSE <<v[1] \div (2^k), (v[2] \div (2^k)) + (v[1] % (2^k)) * (2^(16 - k))>>

\* ------------------------------------------------- capacity resolver
minRoundNumBy2(v) ==
    LET v0 == IF Lt32(v, U32(MinCap)) THEN U32(MinCap) ELSE v
        v1 == Or32(v0, Shr32(v0, 1))
        v2 == Or32(v1, Shr32(v1, 2))
        v3 == Or32(v2, Shr32(v2, 4))
        v4 == Or32(v3, Shr32(v3, 8))
        v5 == Or32(v4, Shr32(v4, 16))
    IN  IF Not32(v5) = Zero32 THEN Sub32(v5, One32) ELSE Add32(v5, One32)

\* ------------------------------------------------------------- state
VARIABLES
    rq,        \* the capacity requested of NewQueue (uint32)
    built,     \* NewQueue has run
    cap,       \* q.cap (uint32)
    read,      \* q.read
    write,     \* q.write
    carrier,   \* q.carrier: slot index -> [writeID, readID, value]
    pc,        \* per thread: where it is in Put or Get
    loc,       \* per thread: the locals of the call in progress
    ret,       \* what the step just taken returned to its caller (NoRet: nothing);
               \* val is the value a Put was passed, or the value a Get returned
    quota,     \* per producer: how many values it offers
    sent,      \* per producer: how many of its values were accepted
    won,       \* history: <<ticket, value>> of every Put that won the cursor CAS
    stored,    \* history: <<ticket, value>> of every Put that returned ok
    taken,     \* history: <<ticket, value>> of every Get that returned ok
    drained,   \* history: bag of the values Gets returned with ok
    quiet,     \* consumers whose call began on an empty queue, no Put accepted since
    overlap,   \* history: two calls were ever in progress together
    log        \* history: calls returned so far, while ~overlap

vars == <<rq, built, cap, read, write, carrier, pc, loc, ret, quota, sent,
          won, stored, taken, drained, quiet, overlap, log>>

Producers == 1..MaxProducers

Consumers == (MaxProducers + 1)..(MaxProducers + MaxConsumers)

Threads == Producers \cup Consumers

\* the threads of this run, and the consumers among them
Running == DOMAIN pc

Cons == Running \ Producers

\* the empty marker (Go's nil); a value is <<producer, number>>
Nil == <<>>

ValueOf(p, i) == <<p, i>>

capMod == Sub32(cap, One32)

NoLoc == [read |-> Zero32, write |-> Zero32, cnt |-> Zero32, pos |-> Zero32,
          readID |-> Zero32, writeID |-> Zero32, val |-> Nil]

NoRet == [op |-> "none", by |-> 0, ok |-> FALSE, cnt |-> Zero32, val |-> Nil]

\* mutant: every slot, slot 0 included, starts with its own index
NewCarrierPlain(c) ==
    [i \in 0..(ToNat(c) - 1) |-> [writeID |-> U32(i), readID |-> U32(i), value |-> Nil]]

\* the slots NewQueue allocates
NewCarrier(c) ==
    [i \in 0..(ToNat(c) - 1) |->
        IF i = 0 THEN [writeID |-> c, readID |-> c, value |-> Nil]
        ELSE [writeID |-> U32(i), readID |-> U32(i), value |-> Nil]]

posCount(r, w) ==
    IF Gt32(w, r) THEN Sub32(w, r) ELSE Add32(Sub32(cap, r), w)

\* mutant: the margin kept by the full-queue check is one ticket too small
PutFullLate(cnt) == Ge32(cnt, capMod)

PutFull(cnt) == Ge32(cnt, Sub32(capMod, One32))

GetEmpty(cnt) == Lt32(cnt, One32)

SlotOf(pos) == ToNat(And32(pos, capMod))

\* mutant: Put does not wait for the slot's previous value to be taken
PutReadyUntaken(posNext, readID, writeID) == posNext = writeID

PutReady(posNext, readID, writeID) == posNext = writeID /\ readID = writeID

\* mutant: Get does not wait for the slot to be published
GetReadyUnpublished(getPosNext, readID, writeID) == getPosNext = readID

GetReady(getPosNext, readID, writeID) ==
    getPosNext = readID /\ Add32(readID, cap) = writeID

Idle(t) == pc[t] = "idle"

\* no slot holds a value that a completed Put stored and no Get took
Empty == \A i \in DOMAIN carrier : carrier[i].writeID = carrier[i].readID

\* ---------------------------------------------------------- history
Began(t) ==
    /\ overlap' = (overlap \/ \E u \in Running \ {t} : ~Idle(u))
    /\ log' = IF overlap' THEN <<>> ELSE log

Returned(r) ==
    /\ log' = IF ~overlap /\ Len(log) < MaxLog THEN Append(log, r) ELSE log
    /\ UNCHANGED overlap

\* --------------------------------------------------------------- Put
PutLoadRead(p) ==
    /\ Idle(p)
    /\ sent[p] < quota[p]
    /\ pc' = [pc EXCEPT ![p] = "pLoadWrite"]
    /\ loc' = [loc EXCEPT ![p] = [NoLoc EXCEPT !.read = read,
                                               !.val = ValueOf(p, sent[p] + 1)]]
    /\ ret' = NoRet
    /\ Began(p)
    /\ UNCHANGED <<rq, built, cap, read, write, carrier, quota, sent, won, stored,
                   taken, drained, quiet>>

PutLoadWrite(p) ==
    /\ pc[p] = "pLoadWrite"
    /\ LET cnt == posCount(loc[p].read, write)
       IN  IF PutFull(cnt)
           THEN /\ pc' = [pc EXCEPT ![p] = "idle"]
                /\ loc' = [loc EXCEPT ![p] = NoLoc]
                /\ ret' = [op |-> "Put", by |-> p, ok |-> FALSE, cnt |-> cnt, val |-> loc[p].val]
                /\ Returned(ret')
           ELSE /\ pc' = [pc EXCEPT ![p] = "pCAS"]
                /\ loc' = [loc EXCEPT ![p].write = write, ![p].cnt = cnt,
                                      ![p].pos = Add32(write, One32)]
                /\ ret' = NoRet
                /\ UNCHANGED <<log, overlap>>
    /\ UNCHANGED <<rq, built, cap, read, write, carrier, quota, sent, won, stored,
                   taken, drained, quiet>>

\* mutant: the write cursor is stored, not compared and swapped
PutCASBlind(p) ==
    /\ pc[p] = "pCAS"
    /\ write' = loc[p].pos
    /\ pc' = [pc EXCEPT ![p] = "pLoadReadID"]
    /\ won' = won \cup {<<ToNat(loc[p].pos), loc[p].val>>}
    /\ ret' = NoRet
    /\ UNCHANGED <<rq, built, cap, read, carrier, loc, quota, sent, stored, taken,
                   drained, quiet, log, overlap>>

PutCAS(p) ==
    /\ pc[p] = "pCAS"
    /\ IF write = loc[p].write
       THEN /\ write' = loc[p].pos
            /\ pc' = [pc EXCEPT ![p] = "pLoadReadID"]
            /\ won' = won \cup {<<ToNat(loc[p].pos), loc[p].val>>}
            /\ ret' = NoRet
            /\ UNCHANGED <<loc, log, overlap>>
       ELSE /\ pc' = [pc EXCEPT ![p] = "idle"]
            /\ ret' = [op |-> "Put", by |-> p, ok |-> FALSE, cnt |-> loc[p].cnt,
                       val |-> loc[p].val]
            /\ loc' = [loc EXCEPT ![p] = NoLoc]
            /\ Returned(ret')
            /\ UNCHANGED <<write, won>>
    /\ UNCHANGED <<rq, built, cap, read, carrier, quota, sent, stored, taken, drained, quiet>>

PutLoadReadID(p) ==
    /\ pc[p] = "pLoadReadID"
    /\ loc' = [loc EXCEPT ![p].readID = carrier[SlotOf(loc[p].pos)].readID]
    /\ pc' = [pc EXCEPT ![p] = "pLoadWriteID"]
    /\ ret' = NoRet
    /\ UNCHANGED <<rq, built, cap, read, write, carrier, quota, sent, won, stored,
                   taken, drained, quiet, overlap, log>>

PutLoadWriteID(p) ==
    /\ pc[p] = "pLoadWriteID"
    /\ LET writeID == carrier[SlotOf(loc[p].pos)].writeID
       IN  IF PutReady(loc[p].pos, loc[p].readID, writeID)
           THEN /\ pc' = [pc EXCEPT ![p] = "pStore"]
                /\ loc' = [loc EXCEPT ![p].writeID = writeID]
           ELSE /\ pc' = [pc EXCEPT ![p] = "pLoadReadID"]
                /\ loc' = [loc EXCEPT ![p].readID = Zero32]
    /\ ret' = NoRet
    /\ UNCHANGED <<rq, built, cap, read, write, carrier, quota, sent, won, stored,
                   taken, drained, quiet, overlap, log>>

PutStore(p) ==
    /\ pc[p] = "pStore"
    /\ carrier' = [carrier EXCEPT ![SlotOf(loc[p].pos)].value = loc[p].val]
    /\ pc' = [pc EXCEPT ![p] = "pPublish"]
    /\ ret' = NoRet
    /\ UNCHANGED <<rq, built, cap, read, write, loc, quota, sent, won, stored,
                   taken, drained, quiet, overlap, log>>

\* mutant: Put publishes by adding one, not the capacity, to writeID
PutPublishByOne(p) ==
    /\ pc[p] = "pPublish"
    /\ carrier' = [carrier EXCEPT ![SlotOf(loc[p].pos)].writeID = Add32(@, One32)]
    /\ pc' = [pc EXCEPT ![p] = "idle"]
    /\ ret' = [op |-> "Put", by |-> p, ok |-> TRUE,
               cnt |-> Add32(loc[p].cnt, One32), val |-> loc[p].val]
    /\ sent' = [sent EXCEPT ![p] = @ + 1]
    /\ stored' = stored \cup {<<ToNat(loc[p].pos), loc[p].val>>}
    /\ quiet' = {}
    /\ loc' = [loc EXCEPT ![p] = NoLoc]
    /\ Returned(ret')
    /\ UNCHANGED <<rq, built, cap, read, write, quota, won, taken, drained>>

PutPublish(p) ==
    /\ pc[p] = "pPublish"
    /\ carrier' = [carrier EXCEPT ![SlotOf(loc[p].pos)].writeID = Add32(@, cap)]
    /\ pc' = [pc EXCEPT ![p] = "idle"]
    /\ ret' = [op |-> "Put", by |-> p, ok |-> TRUE,
               cnt |-> Add32(loc[p].cnt, One32), val |-> loc[p].val]
    /\ sent' = [sent EXCEPT ![p] = @ + 1]
    /\ stored' = stored \cup {<<ToNat(loc[p].pos), loc[p].val>>}
    /\ quiet' = {}
    /\ loc' = [loc EXCEPT ![p] = NoLoc]
    /\ Returned(ret')
    /\ UNCHANGED <<rq, built, cap, read, write, quota, won, taken, drained>>

\* --------------------------------------------------------------- Get
GetLoadRead(c) ==
    /\ Idle(c)
    /\ pc' = [pc EXCEPT ![c] = "gLoadWrite"]
    /\ loc' = [loc EXCEPT ![c] = [NoLoc EXCEPT !.read = read]]
    /\ ret' = NoRet
    /\ quiet' = IF Empty THEN quiet \cup {c} ELSE quiet
    /\ Began(c)
    /\ UNCHANGED <<rq, built, cap, read, write, carrier, quota, sent, won, stored,
                   taken, drained>>

GetLoadWrite(c) ==
    /\ pc[c] = "gLoadWrite"
    /\ LET cnt == posCount(loc[c].read, write)
       IN  IF GetEmpty(cnt)
           THEN /\ pc' = [pc EXCEPT ![c] = "idle"]
                /\ loc' = [loc EXCEPT ![c] = NoLoc]
                /\ ret' = [op |-> "Get", by |-> c, ok |-> FALSE, cnt |-> cnt, val |-> Nil]
                /\ quiet' = quiet \ {c}
                /\ Returned(ret')
           ELSE /\ pc' = [pc EXCEPT ![c] = "gCAS"]
                /\ loc' = [loc EXCEPT ![c].write = write, ![c].cnt = cnt,
                                      ![c].pos = Add32(loc[c].read, One32)]
                /\ ret' = NoRet
                /\ UNCHANGED <<quiet, log, overlap>>
    /\ UNCHANGED <<rq, built, cap, read, write, carrier, quota, sent, won, stored,
                   taken, drained>>

\* mutant: a Get that loses the cursor CAS moves the read cursor all the same
GetCASLeaky(c) ==
    /\ pc[c] = "gCAS"
    /\ read' = loc[c].pos
    /\ IF read = loc[c].read
       THEN /\ pc' = [pc EXCEPT ![c] = "gLoadReadID"]
            /\ ret' = NoRet
            /\ UNCHANGED <<loc, quiet, log, overlap>>
       ELSE /\ pc' = [pc EXCEPT ![c] = "idle"]
            /\ ret' = [op |-> "Get", by |-> c, ok |-> FALSE, cnt |-> loc[c].cnt, val |-> Nil]
            /\ loc' = [loc EXCEPT ![c] = NoLoc]
            /\ quiet' = quiet \ {c}
            /\ Returned(ret')
    /\ UNCHANGED <<rq, built, cap, write, carrier, quota, sent, won, stored, taken, drained>>

\* mutant: the read cursor is stored, not compared and swapped
GetCASBlind(c) ==
    /\ pc[c] = "gCAS"
    /\ read' = loc[c].pos
    /\ pc' = [pc EXCEPT ![c] = "gLoadReadID"]
    /\ ret' = NoRet
    /\ UNCHANGED <<rq, built, cap, write, carrier, loc, quota, sent, won, stored, taken,
                   drained, quiet, log, overlap>>

GetCAS(c) ==
    /\ pc[c] = "gCAS"
    /\ IF read = loc[c].read
       THEN /\ read' = loc[c].pos
            /\ pc' = [pc EXCEPT ![c] = "gLoadReadID"]
            /\ ret' = NoRet
            /\ UNCHANGED <<loc, quiet, log, overlap>>
       ELSE /\ pc' = [pc EXCEPT ![c] = "idle"]
            /\ ret' = [op |-> "Get", by |-> c, ok |-> FALSE, cnt |-> loc[c].cnt, val |-> Nil]
            /\ loc' = [loc EXCEPT ![c] = NoLoc]
            /\ quiet' = quiet \ {c}
            /\ Returned(ret')
            /\ UNCHANGED read
    /\ UNCHANGED <<rq, built, cap, write, carrier, quota, sent, won, stored, taken, drained>>

GetLoadReadID(c) ==
    /\ pc[c] = "gLoadReadID"
    /\ loc' = [loc EXCEPT ![c].readID = carrier[SlotOf(loc[c].pos)].readID]
    /\ pc' = [pc EXCEPT ![c] = "gLoadWriteID"]
    /\ ret' = NoRet
    /\ UNCHANGED <<rq, built, cap, read, write, carrier, quota, sent, won, stored,
                   taken, drained, quiet, overlap, log>>

GetLoadWriteID(c) ==
    /\ pc[c] = "gLoadWriteID"
    /\ LET writeID == carrier[SlotOf(loc[c].pos)].writeID
       IN  IF GetReady(loc[c].pos, loc[c].readID, writeID)
           THEN /\ pc' = [pc EXCEPT ![c] = "gTake"]
                /\ loc' = [loc EXCEPT ![c].writeID = writeID]
           ELSE /\ pc' = [pc EXCEPT ![c] = "gLoadReadID"]
                /\ loc' = [loc EXCEPT ![c].readID = Zero32]
    /\ ret' = NoRet
    /\ UNCHANGED <<rq, built, cap, read, write, carrier, quota, sent, won, stored,
                   taken, drained, quiet, overlap, log>>

GetTake(c) ==
    /\ pc[c] = "gTake"
    /\ loc' = [loc EXCEPT ![c].val = carrier[SlotOf(loc[c].pos)].value]
    /\ pc' = [pc EXCEPT ![c] = "gClear"]
    /\ ret' = NoRet
    /\ UNCHANGED <<rq, built, cap, read, write, carrier, quota, sent, won, stored,
                   taken, drained, quiet, overlap, log>>

GetClear(c) ==
    /\ pc[c] = "gClear"
    /\ carrier' = [carrier EXCEPT ![SlotOf(loc[c].pos)].value = Nil]
    /\ pc' = [pc EXCEPT ![c] = "gRelease"]
    /\ ret' = NoRet
    /\ UNCHANGED <<rq, built, cap, read, write, loc, quota, sent, won, stored,
                   taken, drained, quiet, overlap, log>>

\* mutant: Get reports ok=true whatever it took out of the slot
GetReleaseOk(c) ==
    /\ pc[c] = "gRelease"
    /\ carrier' = [carrier EXCEPT ![SlotOf(loc[c].pos)].readID = Add32(@, cap)]
    /\ pc' = [pc EXCEPT ![c] = "idle"]
    /\ ret' = [op |-> "Get", by |-> c, ok |-> TRUE,
               cnt |-> Sub32(loc[c].cnt, One32), val |-> loc[c].val]
    /\ taken' = taken \cup {<<ToNat(loc[c].pos), loc[c].val>>}
    /\ drained' = drained (+) SetToBag({loc[c].val})
    /\ quiet' = quiet \ {c}
    /\ loc' = [loc EXCEPT ![c] = NoLoc]
    /\ Returned(ret')
    /\ UNCHANGED <<rq, built, cap, read, write, quota, sent, won, stored>>

GetRelease(c) ==
    /\ pc[c] = "gRelease"
    /\ carrier' = [carrier EXCEPT ![SlotOf(loc[c].pos)].readID = Add32(@, cap)]
    /\ pc' = [pc EXCEPT ![c] = "idle"]
    /\ LET ok == loc[c].val # Nil
       IN  /\ ret' = [op |-> "Get", by |-> c, ok |-> ok,
                      cnt |-> Sub32(loc[c].cnt, One32), val |-> loc[c].val]
           /\ taken' = IF ok THEN taken \cup {<<ToNat(loc[c].pos), loc[c].val>>} ELSE taken
           /\ drained' = IF ok THEN drained (+) SetToBag({loc[c].val}) ELSE drained
    /\ quiet' = quiet \ {c}
    /\ loc' = [loc EXCEPT ![c] = NoLoc]
    /\ Returned(ret')
    /\ UNCHANGED <<rq, built, cap, read, write, quota, sent, won, stored>>

\* ----------------------------------------------------- specification
\* the queue NewQueue(r) returns, used by the threads `who`
Fresh(r, who) ==
    /\ rq = r
    /\ built = TRUE
    /\ cap = minRoundNumBy2(r)
    /\ read = Zero32
    /\ write = Zero32
    /\ carrier = NewCarrier(cap)
    /\ pc = [t \in who |-> "idle"]
    /\ loc = [t \in who |-> NoLoc]
    /\ ret = NoRet
    /\ sent = [p \in Producers |-> 0]
    /\ won = {}
    /\ stored = {}
    /\ taken = {}
    /\ drained = EmptyBag
    /\ quiet = {}
    /\ overlap = FALSE
    /\ log = <<>>

\* one producer alone offers LapPuts values; all together offer MaxPuts each
Quotas ==
    { [p \in Producers |-> IF p = 1 THEN LapPuts ELSE 0],
      [p \in Producers |-> MaxPuts] }

Init ==
    /\ Fresh(U32(ReqCap), Threads)
    /\ quota \in Quotas

PutStep(p) ==
    \/ PutLoadWrite(p)
    \/ PutCAS(p)
    \/ PutLoadReadID(p)
    \/ PutLoadWriteID(p)
    \/ PutStore(p)
    \/ PutPublish(p)

GetStep(c) ==
    \/ GetLoadWrite(c)
    \/ GetCAS(c)
    \/ GetLoadReadID(c)
    \/ GetLoadWriteID(c)
    \/ GetTake(c)
    \/ GetClear(c)
    \/ GetRelease(c)

Next ==
    \/ \E p \in Producers : PutLoadRead(p) \/ PutStep(p)
    \/ \E c \in Consumers : GetLoadRead(c) \/ GetStep(c)

Spec == Init /\ [][Next]_vars

\* --------------------------------------------- capacity resolver runs
Pow32(k) == IF k < 16 THEN <<0, 2^k>> ELSE <<2^(k - 16), 0>>

Requests ==
    {U32(n) : n \in 0..MaxReq}
      \cup {Sub32(Pow32(k), One32) : k \in 6..31}
      \cup {Pow32(k) : k \in 6..31}
      \cup {Add32(Pow32(k), One32) : k \in 6..31}
      \cup {Max32}

\* before NewQueue(rq), rq one of reqs
Unbuilt(reqs) ==
    /\ rq \in reqs
    /\ built = FALSE
    /\ cap = Zero32
    /\ read = Zero32
    /\ write = Zero32
    /\ carrier = <<>>
    /\ pc = <<>>
    /\ loc = <<>>
    /\ ret = NoRet
    /\ quota = [p \in Producers |-> 0]
    /\ sent = [p \in Producers |-> 0]
    /\ won = {}
    /\ stored = {}
    /\ taken = {}
    /\ drained = EmptyBag
    /\ quiet = {}
    /\ overlap = FALSE
    /\ log = <<>>

InitRound == Unbuilt(Requests)

\* q.minRoundNumBy2(rq) is evaluated; ret.cnt is what it returns
CallMinRoundNumBy2 ==
    /\ ret = NoRet
    /\ ret' = [op |-> "minRoundNumBy2", by |-> 0, ok |-> TRUE,
               cnt |-> minRoundNumBy2(rq), val |-> Nil]
    /\ UNCHANGED <<rq, built, cap, read, write, carrier, pc, loc, quota, sent, won,
                   stored, taken, drained, quiet, overlap, log>>

SpecRound == InitRound /\ [][CallMinRoundNumBy2]_vars

\* ------------------------------------------------- construction runs
InitNew == Unbuilt({U32(n) : n \in 0..MaxReq})

\* NewQueue(rq)
NewQueue ==
    /\ ~built
    /\ built' = TRUE
    /\ cap' = minRoundNumBy2(rq)
    /\ read' = Zero32
    /\ write' = Zero32
    /\ carrier' = NewCarrier(cap')
    /\ UNCHANGED <<rq, pc, loc, ret, quota, sent, won, stored, taken, drained,
                   quiet, overlap, log>>

SpecNew == InitNew /\ [][NewQueue]_vars

\* ------------------------------------------------------ crowded runs
\* Many consumers, most of them slow: every consumer but the first stops
\* being scheduled once it holds a ticket, the first stops calling Get once
\* it has drained a value, the consumers call Get one after another, a
\* call begins only when no other call is between its first load and its
\* cursor CAS, and a Put begins only when no waiting consumer would be
\* admitted.  Every behaviour of these runs is a behaviour of
\* the queue under some scheduling of CrowdSize consumer threads.
Crowd == (MaxProducers + 1)..(MaxProducers + CrowdSize)


Fast == MaxProducers + 1

HoldsTicket(c) == pc[c] \notin {"idle", "gLoadWrite", "gCAS"}

InitCrowd ==
    /\ Fresh(U32(ReqCap), Producers \cup Crowd)
    /\ quota = [p \in Producers |-> IF p = 1 THEN CrowdPuts ELSE 0]

Admitting(t) == pc[t] \in {"pLoadWrite", "pCAS", "gLoadWrite", "gCAS"}

Waiting(c) == Idle(c) /\ (c = Fast => taken = {})

CrowdPut(p) ==
    /\ \A t \in Running : ~Admitting(t)
    /\ (\E c \in Crowd : Waiting(c)) => GetEmpty(posCount(read, write))
    /\ PutLoadRead(p)

CrowdGet(c) ==
    /\ \A t \in Running : ~Admitting(t)
    /\ \A d \in Crowd : d < c => (HoldsTicket(d) \/ (d = Fast /\ taken # {}))
    /\ c = Fast => taken = {}
    /\ GetLoadRead(c)

CrowdDrain(c) ==
    /\ c = Fast
    /\ \/ GetLoadReadID(c)
       \/ GetLoadWriteID(c)
       \/ GetTake(c)
       \/ GetClear(c)
       \/ GetRelease(c)

CrowdNext ==
    \/ \E p \in Producers : CrowdPut(p) \/ PutStep(p)
    \/ \E c \in Crowd : CrowdGet(c) \/ GetLoadWrite(c) \/ GetCAS(c) \/ CrowdDrain(c)

SpecCrowd == InitCrowd /\ [][CrowdNext]_vars

\* ------------------------------------------------- liveness runs
\* one producer offers LivePuts values to the consumers
InitLive ==
    /\ Fresh(U32(ReqCap), Threads)
    /\ quota = [p \in Producers |-> IF p = 1 THEN LivePuts ELSE 0]

\* a thread with a call in progress keeps taking steps; nothing is assumed
\* about calls being started
LiveSpec ==
    /\ InitLive
    /\ [][Next]_vars
    /\ \A p \in Producers : WF_vars(PutStep(p))
    /\ \A c \in Consumers : WF_vars(GetStep(c))

\* the stress scenario: every producer retries Put until its values are
\* accepted, every consumer retries Get until all values are drained
Produced == {ValueOf(p, i) : p \in Producers, i \in 1..LivePuts} \cap
            {v \in {ValueOf(p, i) : p \in Producers, i \in 1..LivePuts} : v[2] <= quota[v[1]]}

AllDrained == BagCardinality(drained) >= Cardinality(Produced)

StressGet(c) == ~AllDrained /\ GetLoadRead(c)

StressNext ==
    \/ \E p \in Producers : PutLoadRead(p) \/ PutStep(p)
    \/ \E c \in Consumers : StressGet(c) \/ GetStep(c)

StressSpec ==
    /\ InitLive
    /\ [][StressNext]_vars
    /\ \A p \in Producers : WF_vars(PutLoadRead(p) \/ PutStep(p))
    /\ \A c \in Consumers : WF_vars(StressGet(c) \/ GetStep(c))

\* ------------------------------------------------- runs with Put(nil)
\* Put(nil): the call begins as any Put, the value passed is the empty marker
PutNilLoadRead(p) ==
    /\ Idle(p)
    /\ sent[p] < quota[p]
    /\ pc' = [pc EXCEPT ![p] = "pLoadWrite"]
    /\ loc' = [loc EXCEPT ![p] = [NoLoc EXCEPT !.read = read, !.val = Nil]]
    /\ ret' = NoRet
    /\ Began(p)
    /\ UNCHANGED <<rq, built, cap, read, write, carrier, quota, sent, won, stored,
                   taken, drained, quiet>>

NilNext ==
    \/ \E p \in Producers : PutLoadRead(p) \/ PutNilLoadRead(p) \/ PutStep(p)
    \/ \E c \in Consumers : GetLoadRead(c) \/ GetStep(c)

SpecNil == InitLive /\ [][NilNext]_vars

\* ---------------------------------------------- occupancy estimator runs
\* the cursors of a queue of ReqCap lie on either side of the wrap point, the
\* write cursor up to cap ahead of the read cursor
NearWrap == {Sub32(Zero32, U32(k)) : k \in 1..MaxBack} \cup {U32(k) : k \in 0..MaxBack}

InitCount ==
    /\ rq = U32(ReqCap)
    /\ built = TRUE
    /\ cap = minRoundNumBy2(rq)
    /\ read \in NearWrap
    /\ write \in {Add32(read, U32(d)) : d \in 0..ToNat(cap)}
    /\ carrier = <<>>
    /\ pc = <<>>
    /\ loc = <<>>
    /\ ret = NoRet
    /\ quota = [p \in Producers |-> 0]
    /\ sent = [p \in Producers |-> 0]
    /\ won = {}
    /\ stored = {}
    /\ taken = {}
    /\ drained = EmptyBag
    /\ quiet = {}
    /\ overlap = FALSE
    /\ log = <<>>

\* cnt := q.posCount(read, write), as Put and Get compute it
CountCursors ==
    /\ ret = NoRet
    /\ ret' = [op |-> "Count", by |-> 0, ok |-> ~PutFull(posCount(read, write)),
               cnt |-> posCount(read, write), val |-> Nil]
    /\ UNCHANGED <<rq, built, cap, read, write, carrier, pc, loc, quota, sent, won,
                   stored, taken, drained, quiet, overlap, log>>

SpecCount == InitCount /\ [][CountCursors]_vars

\* ---------------------------------------------- stale-snapshot runs
\* Runs in which producers hold a snapshot of the read cursor while other
\* calls go on. StaleProducers producers and StaleGets consumers share the
\* queue of NewQueue(ReqCap); calls run one at a time, except that a Put may
\* be suspended between its load of q.read and its load of q.write, and a
\* call whose slot is not ready is suspended in its loop until it is.
StaleP == 1..StaleProducers

StaleC == (StaleProducers + 1)..(StaleProducers + StaleGets)

InitStale ==
    /\ rq = U32(ReqCap)
    /\ built = TRUE
    /\ cap = minRoundNumBy2(rq)
    /\ read = Zero32
    /\ write = Zero32
    /\ carrier = NewCarrier(cap)
    /\ pc = [t \in StaleP \cup StaleC |-> "idle"]
    /\ loc = [t \in StaleP \cup StaleC |-> NoLoc]
    /\ ret = NoRet
    /\ quota = [p \in StaleP |-> IF p = StaleProducers THEN StalePuts ELSE 1]
    /\ sent = [p \in StaleP |-> 0]
    /\ won = {}
    /\ stored = {}
    /\ taken = {}
    /\ drained = EmptyBag
    /\ quiet = {}
    /\ overlap = FALSE
    /\ log = <<>>

\* the slot of t's ticket passes the check of t's loop
SlotReady(t) ==
    LET s == carrier[SlotOf(loc[t].pos)]
    IN  \/ pc[t] = "pLoadReadID" /\ PutReady(loc[t].pos, s.readID, s.writeID)
        \/ pc[t] = "gLoadReadID" /\ GetReady(loc[t].pos, s.readID, s.writeID)

\* t is between calls, or suspended; the last producer is not suspended
\* between its loads
Parked(t) ==
    \/ pc[t] = "idle"
    \/ pc[t] = "pLoadWrite" /\ t # StaleProducers
    \/ pc[t] \in {"pLoadReadID", "gLoadReadID"} /\ ~SlotReady(t)

\* t is scheduled: every other thread is between calls or suspended
Alone(t) ==
    /\ \A u \in Running \ {t} : Parked(u)
    /\ pc[t] \in {"pLoadReadID", "gLoadReadID"} => SlotReady(t)

\* the consumers call Get once each, in the order of their numbers
StaleGet(c) ==
    /\ ToNat(read) = c - StaleProducers - 1
    /\ GetLoadRead(c)

\* the producers begin their calls in the order of their numbers
StalePut(p) ==
    /\ \A q \in StaleP : q < p => (~Idle(q) \/ sent[q] > 0)
    /\ PutLoadRead(p)

StaleNext ==
    \/ \E p \in StaleP :
          \/ Alone(p) /\ StalePut(p)
          \/ Alone(p) /\ PutLoadWrite(p)
          \/ Alone(p) /\ PutCAS(p)
          \/ Alone(p) /\ PutLoadReadID(p)
          \/ Alone(p) /\ PutLoadWriteID(p)
          \/ Alone(p) /\ PutStore(p)
          \/ Alone(p) /\ PutPublish(p)
    \/ \E c \in StaleC :
          \/ Alone(c) /\ StaleGet(c)
          \/ Alone(c) /\ GetLoadWrite(c)
          \/ Alone(c) /\ GetCAS(c)
          \/ Alone(c) /\ GetLoadReadID(c)
          \/ Alone(c) /\ GetLoadWriteID(c)
          \/ Alone(c) /\ GetTake(c)
          \/ Alone(c) /\ GetClear(c)
          \/ Alone(c) /\ GetRelease(c)

SpecStale == InitStale /\ [][StaleNext]_vars

\* ------------------------------------------------------ LFQueue runs
\* The LFQueue variant: the slot protocol of DefaultQueue with a wait counter
\* in both spin loops; past MaxWait failed checks a Put calls Get and a Get
\* calls Put(nil).  q.posCount is computed as DefaultQueue.posCount.
LFminRoundNumBy2(v) ==
    LET v0 == Sub32(v, One32)
        v1 == Or32(v0, Shr32(v0, 1))
        v2 == Or32(v1, Shr32(v1, 2))
        v3 == Or32(v2, Shr32(v2, 4))
        v4 == Or32(v3, Shr32(v3, 8))
        v5 == Or32(v4, Shr32(v4, 16))
    IN  Add32(v5, One32)

LFCapacity(r) == LFminRoundNumBy2(IF Lt32(r, One32) THEN U32(LFMinCap) ELSE r)

LFThreads == 1..LFCallers

\* the caller that is scheduled while its slot check fails; the others are
\* scheduled at a slot check only when it will succeed
Impatient == 1

\* the locals of the call in progress; outer: the calls it is nested in,
\* innermost first
NoFrame == [op |-> "none", read |-> Zero32, write |-> Zero32, cnt |-> Zero32,
            pos |-> Zero32, readID |-> Zero32, writeID |-> Zero32, val |-> Nil,
            wait |-> 0, outer |-> <<>>]

Suspended(f) == [op |-> f.op, pos |-> f.pos, cnt |-> f.cnt, val |-> f.val, wait |-> f.wait]

\* waitCounter++, kept at MaxWait + 1 once it is past MaxWait
Waited(n) == IF n > MaxWait THEN n ELSE n + 1

\* the call returns r: to the thread's caller, or into the spin loop of the
\* call it is nested in
LFReturn(t, r) ==
    /\ ret' = r
    /\ IF loc[t].outer = <<>>
       THEN /\ pc' = [pc EXCEPT ![t] = "idle"]
            /\ loc' = [loc EXCEPT ![t] = NoFrame]
       ELSE LET f == Head(loc[t].outer)
            IN  /\ pc' = [pc EXCEPT ![t] = IF f.op = "Put" THEN "lfpLoadGetID"
                                                          ELSE "lfgLoadGetID"]
                /\ loc' = [loc EXCEPT ![t] =
                              [NoFrame EXCEPT !.op = f.op, !.pos = f.pos, !.cnt = f.cnt,
                                              !.val = f.val, !.wait = f.wait,
                                              !.outer = Tail(loc[t].outer)]]

\* q.Get() or q.Put(nil) called from inside a spin loop whose counter is n
LFCall(t, op, n) ==
    /\ Len(loc[t].outer) + 1 < MaxDepth
    /\ pc' = [pc EXCEPT ![t] = IF op = "Put" THEN "lfpLoadGet" ELSE "lfgLoadGet"]
    /\ loc' = [loc EXCEPT ![t] =
                  [NoFrame EXCEPT !.op = op,
                                  !.outer = <<Suspended([loc[t] EXCEPT !.wait = n])>>
                                                \o loc[t].outer]]

LFPutCall(t) ==
    /\ Idle(t)
    /\ sent[t] < quota[t]
    /\ pc' = [pc EXCEPT ![t] = "lfpLoadGet"]
    /\ loc' = [loc EXCEPT ![t] = [NoFrame EXCEPT !.op = "Put",
                                                 !.val = ValueOf(t, sent[t] + 1)]]
    /\ ret' = NoRet
    /\ UNCHANGED <<rq, built, cap, read, write, carrier, quota, sent, won, stored,
                   taken, drained, quiet, overlap, log>>

LFPutLoadGet(t) ==
    /\ pc[t] = "lfpLoadGet"
    /\ pc' = [pc EXCEPT ![t] = "lfpLoadPut"]
    /\ loc' = [loc EXCEPT ![t].read = read]
    /\ ret' = NoRet
    /\ UNCHANGED <<rq, built, cap, read, write, carrier, quota, sent, won, stored,
                   taken, drained, quiet, overlap, log>>

LFPutLoadPut(t) ==
    /\ pc[t] = "lfpLoadPut"
    /\ LET cnt == posCount(loc[t].read, write)
       IN  IF PutFull(cnt)
           THEN LFReturn(t, [op |-> "Put", by |-> t, ok |-> FALSE, cnt |-> cnt,
                             val |-> loc[t].val])
           ELSE /\ pc' = [pc EXCEPT ![t] = "lfpCAS"]
                /\ loc' = [loc EXCEPT ![t].write = write, ![t].cnt = cnt,
                                      ![t].pos = Add32(write, One32)]
                /\ ret' = NoRet
    /\ UNCHANGED <<rq, built, cap, read, write, carrier, quota, sent, won, stored,
                   taken, drained, quiet, overlap, log>>

LFPutCAS(t) ==
    /\ pc[t] = "lfpCAS"
    /\ IF write = loc[t].write
       THEN /\ write' = loc[t].pos
            /\ pc' = [pc EXCEPT ![t] = "lfpLoadGetID"]
            /\ won' = won \cup {<<ToNat(loc[t].pos), loc[t].val>>}
            /\ ret' = NoRet
            /\ UNCHANGED loc
       ELSE /\ LFReturn(t, [op |-> "Put", by |-> t, ok |-> FALSE, cnt |-> loc[t].cnt,
                            val |-> loc[t].val])
            /\ UNCHANGED <<write, won>>
    /\ UNCHANGED <<rq, built, cap, read, carrier, quota, sent, stored, taken, drained,
                   quiet, overlap, log>>

LFPutLoadGetID(t) ==
    /\ pc[t] = "lfpLoadGetID"
    /\ \/ t = Impatient
       \/ LET s == carrier[SlotOf(loc[t].pos)] IN PutReady(loc[t].pos, s.readID, s.writeID)
    /\ loc' = [loc EXCEPT ![t].readID = carrier[SlotOf(loc[t].pos)].readID]
    /\ pc' = [pc EXCEPT ![t] = "lfpLoadPutID"]
    /\ ret' = NoRet
    /\ UNCHANGED <<rq, built, cap, read, write, carrier, quota, sent, won, stored,
                   taken, drained, quiet, overlap, log>>

LFPutLoadPutID(t) ==
    /\ pc[t] = "lfpLoadPutID"
    /\ LET writeID == carrier[SlotOf(loc[t].pos)].writeID
           n == Waited(loc[t].wait)
       IN  IF PutReady(loc[t].pos, loc[t].readID, writeID)
           THEN /\ pc' = [pc EXCEPT ![t] = "lfpStore"]
                /\ loc' = [loc EXCEPT ![t].writeID = writeID]
           ELSE IF n > MaxWait
           THEN LFCall(t, "Get", n)
           ELSE /\ pc' = [pc EXCEPT ![t] = "lfpLoadGetID"]
                /\ loc' = [loc EXCEPT ![t].readID = Zero32, ![t].wait = n]
    /\ ret' = NoRet
    /\ UNCHANGED <<rq, built, cap, read, write, carrier, quota, sent, won, stored,
                   taken, drained, quiet, overlap, log>>

LFPutStore(t) ==
    /\ pc[t] = "lfpStore"
    /\ carrier' = [carrier EXCEPT ![SlotOf(loc[t].pos)].value = loc[t].val]
    /\ pc' = [pc EXCEPT ![t] = "lfpPublish"]
    /\ ret' = NoRet
    /\ UNCHANGED <<rq, built, cap, read, write, loc, quota, sent, won, stored,
                   taken, drained, quiet, overlap, log>>

LFPutPublish(t) ==
    /\ pc[t] = "lfpPublish"
    /\ carrier' = [carrier EXCEPT ![SlotOf(loc[t].pos)].writeID = Add32(@, cap)]
    /\ sent' = IF loc[t].outer = <<>> THEN [sent EXCEPT ![t] = @ + 1] ELSE sent
    /\ stored' = stored \cup {<<ToNat(loc[t].pos), loc[t].val>>}
    /\ LFReturn(t, [op |-> "Put", by |-> t, ok |-> TRUE,
                    cnt |-> Add32(loc[t].cnt, One32), val |-> loc[t].val])
    /\ UNCHANGED <<rq, built, cap, read, write, quota, won, taken, drained, quiet,
                   overlap, log>>

LFGetLoadGet(t) ==
    /\ pc[t] = "lfgLoadGet"
    /\ pc' = [pc EXCEPT ![t] = "lfgLoadPut"]
    /\ loc' = [loc EXCEPT ![t].read = read]
    /\ ret' = NoRet
    /\ UNCHANGED <<rq, built, cap, read, write, carrier, quota, sent, won, stored,
                   taken, drained, quiet, overlap, log>>

LFGetLoadPut(t) ==
    /\ pc[t] = "lfgLoadPut"
    /\ LET cnt == posCount(loc[t].read, write)
       IN  IF GetEmpty(cnt)
           THEN LFReturn(t, [op |-> "Get", by |-> t, ok |-> FALSE, cnt |-> cnt, val |-> Nil])
           ELSE /\ pc' = [pc EXCEPT ![t] = "lfgCAS"]
                /\ loc' = [loc EXCEPT ![t].write = write, ![t].cnt = cnt,
                                      ![t].pos = Add32(loc[t].read, One32)]
                /\ ret' = NoRet
    /\ UNCHANGED <<rq, built, cap, read, write, carrier, quota, sent, won, stored,
                   taken, drained, quiet, overlap, log>>

LFGetCAS(t) ==
    /\ pc[t] = "lfgCAS"
    /\ IF read = loc[t].read
       THEN /\ read' = loc[t].pos
            /\ pc' = [pc EXCEPT ![t] = "lfgLoadGetID"]
            /\ ret' = NoRet
            /\ UNCHANGED loc
       ELSE /\ LFReturn(t, [op |-> "Get", by |-> t, ok |-> FALSE, cnt |-> loc[t].cnt,
                            val |-> Nil])
            /\ UNCHANGED read
    /\ UNCHANGED <<rq, built, cap, write, carrier, quota, sent, won, stored, taken,
                   drained, quiet, overlap, log>>

LFGetLoadGetID(t) ==
    /\ pc[t] = "lfgLoadGetID"
    /\ \/ t = Impatient
       \/ LET s == carrier[SlotOf(loc[t].pos)] IN GetReady(loc[t].pos, s.readID, s.writeID)
    /\ loc' = [loc EXCEPT ![t].readID = carrier[SlotOf(loc[t].pos)].readID]
    /\ pc' = [pc EXCEPT ![t] = "lfgLoadPutID"]
    /\ ret' = NoRet
    /\ UNCHANGED <<rq, built, cap, read, write, carrier, quota, sent, won, stored,
                   taken, drained, quiet, overlap, log>>

LFGetLoadPutID(t) ==
    /\ pc[t] = "lfgLoadPutID"
    /\ LET writeID == carrier[SlotOf(loc[t].pos)].writeID
           n == Waited(loc[t].wait)
       IN  IF GetReady(loc[t].pos, loc[t].readID, writeID)
           THEN /\ pc' = [pc EXCEPT ![t] = "lfgTake"]
                /\ loc' = [loc EXCEPT ![t].writeID = writeID]
           ELSE IF n > MaxWait
           THEN LFCall(t, "Put", n)
           ELSE /\ pc' = [pc EXCEPT ![t] = "lfgLoadGetID"]
                /\ loc' = [loc EXCEPT ![t].readID = Zero32, ![t].wait = n]
    /\ ret' = NoRet
    /\ UNCHANGED <<rq, built, cap, read, write, carrier, quota, sent, won, stored,
                   taken, drained, quiet, overlap, log>>

LFGetTake(t) ==
    /\ pc[t] = "lfgTake"
    /\ loc' = [loc EXCEPT ![t].val = carrier[SlotOf(loc[t].pos)].value]
    /\ pc' = [pc EXCEPT ![t] = "lfgClear"]
    /\ ret' = NoRet
    /\ UNCHANGED <<rq, built, cap, read, write, carrier, quota, sent, won, stored,
                   taken, drained, quiet, overlap, log>>

LFGetClear(t) ==
    /\ pc[t] = "lfgClear"
    /\ carrier' = [carrier EXCEPT ![SlotOf(loc[t].pos)].value = Nil]
    /\ pc' = [pc EXCEPT ![t] = "lfgRelease"]
    /\ ret' = NoRet
    /\ UNCHANGED <<rq, built, cap, read, write, loc, quota, sent, won, stored,
                   taken, drained, quiet, overlap, log>>

LFGetRelease(t) ==
    /\ pc[t] = "lfgRelease"
    /\ carrier' = [carrier EXCEPT ![SlotOf(loc[t].pos)].readID = Add32(@, cap)]
    /\ LET ok == loc[t].val # Nil
       IN  /\ LFReturn(t, [op |-> "Get", by |-> t, ok |-> ok,
                           cnt |-> Sub32(loc[t].cnt, One32), val |-> loc[t].val])
           /\ taken' = IF ok THEN taken \cup {<<ToNat(loc[t].pos), loc[t].val>>} ELSE taken
           /\ drained' = IF ok THEN drained (+) SetToBag({loc[t].val}) ELSE drained
    /\ UNCHANGED <<rq, built, cap, read, write, quota, sent, won, stored, quiet,
                   overlap, log>>

\* the queue the LFQueue NewQueue(LFReq) returns, used by LFThreads
InitLF ==
    /\ rq = U32(LFReq)
    /\ built = TRUE
    /\ cap = LFCapacity(rq)
    /\ read = Zero32
    /\ write = Zero32
    /\ carrier = NewCarrier(cap)
    /\ pc = [t \in LFThreads |-> "idle"]
    /\ loc = [t \in LFThreads |-> NoFrame]
    /\ ret = NoRet
    /\ quota = [t \in LFThreads |-> LFPuts]
    /\ sent = [t \in LFThreads |-> 0]
    /\ won = {}
    /\ stored = {}
    /\ taken = {}
    /\ drained = EmptyBag
    /\ quiet = {}
    /\ overlap = FALSE
    /\ log = <<>>

LFNext ==
    \E t \in LFThreads :
        \/ LFPutCall(t)
        \/ LFPutLoadGet(t)
        \/ LFPutLoadPut(t)
        \/ LFPutCAS(t)
        \/ LFPutLoadGetID(t)
        \/ LFPutLoadPutID(t)
        \/ LFPutStore(t)
        \/ LFPutPublish(t)
        \/ LFGetLoadGet(t)
        \/ LFGetLoadPut(t)
        \/ LFGetCAS(t)
        \/ LFGetLoadGetID(t)
        \/ LFGetLoadPutID(t)
        \/ LFGetTake(t)
        \/ LFGetClear(t)
        \/ LFGetRelease(t)

SpecLF == InitLF /\ [][LFNext]_vars

\* ------------------------------------------------------------ claims
Accepted == {s[2] : s \in stored}

\* C1: every value a Get returned with ok=true had been passed to a Put that
\* returned ok=true, and no value was returned by more than one Get.
NoDuplicationNoFabrication ==
    \A v \in BagToSet(drained) : CopiesIn(v, drained) = 1 /\ v \in Accepted

\* C1 witness: a value was drained from a slot in its second lap while the
\* first value of the same slot had been drained before.
SecondLapDrained ==
    \E s \in taken : s[1] > ToNat(cap) /\ \E t \in taken : t[1] + ToNat(cap) = s[1]

\* C2: the Get that won ticket k returned exactly the value of the Put that
\* won ticket k.
FifoByTicket ==
    \A s \in taken : s \in won /\ \A w \in won : w[1] = s[1] => w[2] = s[2]

\* C2 witness: values of two racing producers were drained, three or more in all.
TwoProducersDrained ==
    /\ Cardinality(taken) >= 3
    /\ \E s, t \in taken : s[2][1] # t[2][1]

\* what the claimed sequential scenario makes call i of a run return, given
\* that the run made m Puts first
LeadingPuts == Cardinality({i \in 1..Len(log) : \A j \in 1..i : log[j].op = "Put"})

AsClaimed(i, m) ==
    IF i <= m
    THEN log[i].ok /\ log[i].cnt = U32(i)
    ELSE IF i <= 2 * m
    THEN log[i].ok /\ log[i].val = log[i - m].val /\ log[i].cnt = U32(2 * m - i)
    ELSE ~log[i].ok /\ log[i].val = Nil /\ log[i].cnt = Zero32

\* C5: in a run without concurrency on a fresh queue, m Puts (m <= cap - 2)
\* return (true,1)..(true,m), the m Gets that follow return the values in Put
\* order with counts m-1..0, and one further Get returns (nil,false,0).
SequentialScenario ==
    LET m == LeadingPuts
    IN  (~overlap /\ m >= 1 /\ m <= ToNat(cap) - 2) =>
            \A i \in 1..Len(log) :
                ((i <= 2 * m + 1) /\ (\A j \in (m + 1)..i : log[j].op = "Get"))
                    => AsClaimed(i, m)

\* C7: the occupancy estimate of the cursors, and every count a failed Put or
\* Get returns, is below the capacity.
CountInRange ==
    /\ Lt32(posCount(read, write), cap)
    /\ (ret.op # "none" /\ ~ret.ok) => Lt32(ret.cnt, cap)

StressDone ==
    /\ AllDrained
    /\ \A t \in Threads : Idle(t)
    /\ drained = SetToBag(Produced)

\* C3: the stress scenario ends: all values drained, no call in progress, the
\* drained values are the produced values.
StressCompletes == <>StressDone

\* C4: a Get that began on an empty queue returns ok=false with a nil value,
\* unless a Put is accepted first.
EmptyGetFails ==
    \A c \in Consumers :
        (c \in quiet) ~>
            \/ (ret.op = "Get" /\ ret.by = c /\ ~ret.ok /\ ret.val = Nil)
            \/ (ret.op = "Put" /\ ret.ok)

\* C8: every call in progress returns.
NeverBlocks == \A t \in Threads : (~Idle(t)) ~> Idle(t)

\* the slots that hold a published value no Get has released
FullSlots == {i \in DOMAIN carrier : carrier[i].writeID = Add32(carrier[i].readID, cap)}

\* C6 as claimed: at most capacity - 2 values are stored and not yet taken.
OccupancyBelowMargin == Cardinality(FullSlots) <= ToNat(cap) - 2

\* the values a completed Put stored and no completed Get returned
Unretrieved == stored \ taken

\* C6 amended: at most capacity values are stored and not yet taken.
OccupancyWithinCapacity == Cardinality(Unretrieved) <= ToNat(cap)

\* C6 witness: every slot holds a value that no Get has taken.
AllSlotsFull ==
    /\ Cardinality(Unretrieved) = ToNat(cap)
    /\ FullSlots = DOMAIN carrier

RECURSIVE SmallestPow2From(_, _)
SmallestPow2From(k, v) ==
    IF k >= 31 \/ Ge32(Pow32(k), v) THEN Pow32(k) ELSE SmallestPow2From(k + 1, v)

Wanted == IF Lt32(rq, U32(MinCap)) THEN U32(MinCap) ELSE rq

\* C9: for a request r with max(r, MinCap) <= 2^31 the capacity is the
\* smallest power of two >= max(r, MinCap).
CapacityRounding ==
    (ret.op = "minRoundNumBy2" /\ ~Lt32(Pow32(31), Wanted)) =>
        ret.cnt = SmallestPow2From(0, Wanted)

\* C10: the capacity is a non-zero power of two for every request.
CapacityPowerOfTwo ==
    ret.op = "minRoundNumBy2" =>
        (ret.cnt # Zero32 /\ And32(ret.cnt, Sub32(ret.cnt, One32)) = Zero32)

\* the part of a call that runs before its cursor CAS has succeeded
Admission == {"pLoadWrite", "pCAS", "gLoadWrite", "gCAS"}

\* C11: a step of a call that has not won its cursor CAS, in particular the
\* step by which a Put returns ok=false or a Get returns ok=false on admission
\* denial or a lost CAS, changes neither cursor and no slot.
FailureLeavesState ==
    [][\A t \in Running :
          (pc[t] # pc'[t] /\ (pc'[t] \in Admission \/ (pc[t] \in Admission /\ pc'[t] = "idle")))
              => UNCHANGED <<read, write, carrier>>]_vars

\* C11 witness: a Put has just returned ok=false after losing the cursor CAS
\* (its count was below the full mark) while values are stored in the queue.
PutLostRace ==
    /\ ret.op = "Put" /\ ~ret.ok /\ ~PutFull(ret.cnt)
    /\ stored # {}

\* C12: a Put(nil) that won the cursor CAS returns ok=true; the Get that
\* drains a nil returns (nil, false, cnt - 1), having moved the read cursor by
\* one and moving the slot's readID by cap; and while only non-nil values have
\* been Put, a Get that completes the slot protocol returns ok=true.
SentinelHandling ==
    [][/\ \A p \in Producers :
            (pc[p] \notin Admission /\ ~Idle(p) /\ loc[p].val = Nil /\ pc'[p] = "idle")
                => (ret'.op = "Put" /\ ret'.by = p /\ ret'.ok)
       /\ \A c \in Consumers :
            (pc[c] = "gRelease" /\ pc'[c] = "idle") =>
                /\ loc[c].val = Nil =>
                     /\ ret' = [op |-> "Get", by |-> c, ok |-> FALSE,
                                cnt |-> Sub32(loc[c].cnt, One32), val |-> Nil]
                     /\ loc[c].pos = Add32(loc[c].read, One32)
                     /\ read # loc[c].read
                     /\ carrier'[SlotOf(loc[c].pos)].readID =
                            Add32(carrier[SlotOf(loc[c].pos)].readID, cap)
                /\ (\A w \in won : w[2] # Nil) => ret'.ok]_vars

\* C12 witness: a nil was stored by a Put that returned ok=true, a Get has
\* released its slot and the step just taken returned a failed Get.
NilDrained ==
    /\ ret.op = "Get" /\ ~ret.ok
    /\ \E s \in stored :
          /\ s[2] = Nil
          /\ carrier[SlotOf(U32(s[1]))].readID = Add32(U32(s[1]), cap)

\* a call between passing its generation check on a slot and the Add that
\* follows on that slot
InPayload(t) == pc[t] \in {"pStore", "pPublish", "gTake", "gClear", "gRelease"}

\* C13: no two calls are between their generation check and the following
\* writeID.Add / readID.Add on the same slot.
PayloadExclusion ==
    \A t, u \in Running :
        (t # u /\ InPayload(t) /\ InPayload(u)) => SlotOf(loc[t].pos) # SlotOf(loc[u].pos)

\* C13 witness: a Put and a Get are both past their generation checks, on
\* different slots, each about to touch its slot's value.
PutAndGetInPayload ==
    \E p \in Producers, c \in Consumers : pc[p] = "pStore" /\ pc[c] = "gTake"

\* a Put or Get call that has won its cursor CAS and not yet returned
Reserved(t) == ~Idle(t) /\ pc[t] \notin Admission

\* C14: a cursor changes only from v to v + 1, by the call that targets
\* v + 1; no two Puts in progress hold the same posNext and no two Gets the
\* same getPosNext.
UniqueReservation ==
    /\ [](\A t, u \in Running :
            (t # u /\ Reserved(t) /\ Reserved(u) /\ (t \in Producers <=> u \in Producers))
                => loc[t].pos # loc[u].pos)
    /\ [][/\ write' # write =>
               /\ write' = Add32(write, One32)
               /\ \E p \in Producers : pc[p] = "pCAS" /\ Reserved(p)' /\ loc'[p].pos = write'
          /\ read' # read =>
               /\ read' = Add32(read, One32)
               /\ \E c \in Running \ Producers :
                     pc[c] = "gCAS" /\ Reserved(c)' /\ loc'[c].pos = read']_vars

\* C14 witness: two Gets hold consecutive tickets while a Put holds one.
ConsecutiveTickets ==
    \E c, d \in Running \ Producers, p \in Producers :
        /\ Reserved(c) /\ Reserved(d) /\ Reserved(p)
        /\ loc[d].pos = Add32(loc[c].pos, One32)

\* C15: for every slot i, writeID and readID are congruent to i modulo cap
\* and writeID - readID is 0 or cap; writeID moves (by cap) only while the
\* slot is empty and readID moves (by cap) only while it holds a value.
SlotLap ==
    /\ [](\A i \in DOMAIN carrier :
            /\ SlotOf(carrier[i].writeID) = i
            /\ SlotOf(carrier[i].readID) = i
            /\ Sub32(carrier[i].writeID, carrier[i].readID) \in {Zero32, cap})
    /\ [][\A i \in DOMAIN carrier :
            /\ carrier'[i].writeID # carrier[i].writeID =>
                  /\ carrier[i].writeID = carrier[i].readID
                  /\ carrier'[i].writeID = Add32(carrier[i].writeID, cap)
            /\ carrier'[i].readID # carrier[i].readID =>
                  /\ carrier[i].writeID = Add32(carrier[i].readID, cap)
                  /\ carrier'[i].readID = Add32(carrier[i].readID, cap)]_vars

\* C15 witness: a slot holds an unread value of its second lap.
SecondLapStored ==
    \E i \in DOMAIN carrier :
        /\ carrier[i].readID = Add32(U32(i), cap)
        /\ carrier[i].writeID = Add32(carrier[i].readID, cap)

\* C16 as claimed: right after NewQueue every slot i, slot 0 included, has
\* writeID = readID = i and a nil value.
SlotInitialisation ==
    built =>
        /\ DOMAIN carrier = 0..(ToNat(cap) - 1)
        /\ \A i \in DOMAIN carrier :
              carrier[i] = [writeID |-> U32(i), readID |-> U32(i), value |-> Nil]

\* C16 amended: right after NewQueue slot 0 has writeID = readID = cap, every
\* other slot i has writeID = readID = i, and every value is nil.
SlotInitialisationLapZero ==
    built =>
        /\ DOMAIN carrier = 0..(ToNat(cap) - 1)
        /\ \A i \in DOMAIN carrier :
              /\ carrier[i].value = Nil
              /\ carrier[i].writeID = carrier[i].readID
              /\ carrier[i].readID = IF i = 0 THEN cap ELSE U32(i)

\* C16 witness: NewQueue has allocated the slots of a capacity above the
\* smallest one.
LargerQueueBuilt ==
    built /\ Lt32(U32(2 * MinCap), cap) /\ DOMAIN carrier = 0..(ToNat(cap) - 1)

\* C17: when the write cursor has wrapped and the read cursor has not, with
\* (write - read) mod 2^32 = d and 0 < d < cap, posCount(read, write) is d,
\* so Put is admitted exactly when d is below the full mark.
WrapOccupancy ==
    LET d == Sub32(write, read)
    IN  (ret.op = "Count" /\ Lt32(write, read) /\ d # Zero32 /\ Lt32(d, cap)) =>
            (ret.cnt = d /\ ret.ok = ~PutFull(d))

\* C18: before any cursor wraparound the read cursor is at most the write
\* cursor: Gets have reserved no more tickets than Puts.
ReadNotPastWrite == ~Lt32(write, read)

\* C19: before any cursor wraparound the write cursor is at most
\* capacity - 2 ahead of the read cursor, whatever snapshots of the read
\* cursor the Puts were admitted on.
ReservationBound == ToNat(write) - ToNat(read) <= ToNat(cap) - 2

\* C19 witness: the write cursor is exactly capacity - 2 ahead of the read
\* cursor, after Puts admitted on stale snapshots of the read cursor took it
\* past the read cursor, and the Put that would take it further has just
\* been refused.
WriteLeadsByMargin ==
    /\ ToNat(write) - ToNat(read) = ToNat(cap) - 2
    /\ ret.op = "Put" /\ ~ret.ok /\ ret.cnt = Sub32(cap, U32(2))

\* C20: when the Get forced by a Put stuck on target t takes out a value
\* (returns ok=true), that value is the one of ticket t - capacity, the
\* occupant of the Put's own slot.
ValveFreesOwnSlot ==
    \A t \in Running :
        (pc[t] = "lfgRelease" /\ loc[t].val # Nil /\ loc[t].outer # <<>>) =>
            (Head(loc[t].outer).op = "Put" =>
                Add32(loc[t].pos, cap) = Head(loc[t].outer).pos)

====
